---- MODULE Spec2Model ----
(***************************************************************************)
(* Model of .github/scripts/llm-failure-analysis.js: the failure-analysis  *)
(* enrichment pipeline (discovery of failed Allure results, prompt         *)
(* construction, transport call, response normalisation, attachment).      *)
(*                                                                         *)
(* Conventions.  A JavaScript string is a sequence of chunks (TLA+ strings *)
(* that are never split); concatenation is \o and the empty string is <<>>.*)
(* A JSON value is a record [t, s, l, o]: t is its type, s the string      *)
(* content, l the elements of a list, o the members of an object as a      *)
(* sequence of [k, v] pairs in order.                                      *)
(*                                                                         *)
(* Three specifications share the module.  Spec is the script run over a   *)
(* results directory, step by step, with the failures of the file system   *)
(* and of the transports, a death of the process at any step, and the      *)
(* script being started again.  SpecNorm applies the normalisation block   *)
(* of analyzeFailures to a text and to its own result.  SpecPrompt applies *)
(* buildPrompt to a result.                                                *)
(***************************************************************************)
EXTENDS Integers, Sequences, FiniteSets, TLC

VARIABLES
    \* ---- the pipeline (Spec) ----
    dirState,       \* "ok" | "missing" | "unreadable": what fs sees at allureDir
    records,        \* file name -> [state, doc]: the files of allureDir that are not analysis files
    analysisFiles,  \* file name -> text: the *-llm-analysis.txt files on disk
    transport,      \* "http" when ollamaUrl is set, else "cli"
    pc,             \* position of the script
    failures,       \* findFailedResults' result: sequence of [file, json]
    idx,            \* position of the for-loop in failures
    analysisText,   \* local of the loop body
    exitCode,       \* process exit code, -1 while running
    outcomes,       \* per record of this run whose loop body completed: "added" | "present" | "failed"
    tfail,          \* indexes of the records of this run whose transport call threw
    invoked,        \* transport calls made in this run
    startRecords,   \* records as they were when this run started
    written,        \* paths of the files this run wrote, in order
    \* ---- normalisation (SpecNorm) ----
    nx, n1, n2, npc,
    \* ---- buildPrompt (SpecPrompt; prompt is also the loop body's local) ----
    ptest, prompt, ppc

pipeVars == <<dirState, records, analysisFiles, transport, pc, failures, idx, analysisText,
              exitCode, outcomes, tfail, invoked, startRecords, written>>
normVars == <<nx, n1, n2, npc>>
promptVars == <<ptest, ppc>>
vars == <<pipeVars, normVars, promptVars, prompt>>

----------------------------------------------------------------------------
(* Bounds *)

MaxFiles == 3   \* files in the results directory: the first MaxFiles of FileNames
MaxDepth == 2   \* nesting of JSON texts inside raw members of the texts normalised
MaxSteps == 2   \* steps of the results a prompt is built from

----------------------------------------------------------------------------
(* JSON values *)

Undefined == [t |-> "undef", s |-> <<>>, l |-> <<>>, o |-> <<>>]
Str(s) == [t |-> "str", s |-> s, l |-> <<>>, o |-> <<>>]
List(l) == [t |-> "list", s |-> <<>>, l |-> l, o |-> <<>>]
Obj(o) == [t |-> "obj", s |-> <<>>, l |-> <<>>, o |-> o]
P(k, v) == [k |-> k, v |-> v]

\* JavaScript truthiness of a value: undefined and "" are falsy, objects and arrays truthy.
Truthy(v) == CASE v.t = "undef" -> FALSE
               [] v.t = "str" -> v.s # <<>>
               [] OTHER -> TRUE

\* Property keys that are canonical array indexes: an object enumerates them first, ascending.
IndexKeys == {"3", "7"}
IsArrayIndex(k) == k \in IndexKeys
KeyNum(k) == IF k = "3" THEN 3 ELSE 7

Keys(o) == {o[i].k : i \in DOMAIN o}
HasKey(o, k) == k \in Keys(o)
FirstIdx(o, k) == CHOOSE i \in DOMAIN o : o[i].k = k /\ \A j \in DOMAIN o : o[j].k = k => i <= j
LastIdx(o, k) == CHOOSE i \in DOMAIN o : o[i].k = k /\ \A j \in DOMAIN o : o[j].k = k => j <= i

\* The position of key k when the members written as o are enumerated from the object
\* JSON.parse created: array indexes ascending, then the other keys in creation order.
KeyRank(o, k) ==
    IF IsArrayIndex(k)
    THEN 1 + Cardinality({j \in Keys(o) : IsArrayIndex(j) /\ KeyNum(j) < KeyNum(k)})
    ELSE 1 + Cardinality({j \in Keys(o) : IsArrayIndex(j)})
           + Cardinality({j \in Keys(o) : ~IsArrayIndex(j) /\ FirstIdx(o, j) < FirstIdx(o, k)})

\* JSON.parse of the text whose tokens are v: a repeated member keeps the place of its
\* first occurrence and the value of its last; JSON.stringify writes an object back as is.
RECURSIVE JSONparse(_)
JSONparse(v) ==
    CASE v.t = "list" -> List([i \in DOMAIN v.l |-> JSONparse(v.l[i])])
      [] v.t = "obj" ->
            Obj([r \in 1..Cardinality(Keys(v.o)) |->
                    LET k == CHOOSE k \in Keys(v.o) : KeyRank(v.o, k) = r
                    IN P(k, JSONparse(v.o[LastIdx(v.o, k)].v))])
      [] OTHER -> v

JSONstringify(v) == v

\* obj[k] of a parsed object
Get(obj, k) == IF obj.t = "obj" /\ HasKey(obj.o, k) THEN obj.o[FirstIdx(obj.o, k)].v ELSE Undefined

\* obj[k] = v on a parsed object: in place when the key exists, else a new last member
\* (k is no array index wherever the script assigns).
Set(obj, k, v) ==
    IF HasKey(obj.o, k)
    THEN Obj([i \in DOMAIN obj.o |-> IF obj.o[i].k = k THEN P(k, v) ELSE obj.o[i]])
    ELSE Obj(Append(obj.o, P(k, v)))

----------------------------------------------------------------------------
(* Texts: what the model answers and what is written to the analysis file.   *)
(* A text is a record: kind says what JSON.parse makes of it ("plain" when   *)
(* it throws), canon whether the text is exactly JSON.stringify(_, null, 2)  *)
(* of its value, chunks the characters of a plain text, inner the content of *)
(* a JSON string literal, and the other fields the members of a JSON object: *)
(* <<>> when absent, <<t>> for a string member whose content is the text t.  *)

Plain(c) ==
    [kind |-> "plain", chunks |-> c, canon |-> FALSE, inner |-> <<>>, summary |-> <<>>,
     probable_root_cause |-> <<>>, allure_attachment |-> <<>>, raw |-> <<>>,
     output |-> <<>>, text |-> <<>>]
EmptyText == Plain(<<>>)
ObjText(canon, summary, raw) ==
    [Plain(<<>>) EXCEPT !.kind = "object", !.canon = canon, !.summary = summary, !.raw = raw]
NumText(canon) == [Plain(<<"1">>) EXCEPT !.kind = "number", !.canon = canon]
NullText(canon) == [Plain(<<"null">>) EXCEPT !.kind = "null", !.canon = canon]
StrLitText(canon, t) == [Plain(<<>>) EXCEPT !.kind = "string", !.canon = canon, !.inner = <<t>>]

\* JSON.parse(t) does not throw
Parses(t) == t.kind # "plain"
\* JSON.stringify(JSON.parse(t), null, 2)
Pretty(t) == [t EXCEPT !.canon = TRUE]
\* truthiness of the member m of a parsed object: present and not the empty string
TruthyMember(m) == m # <<>> /\ m[1] # EmptyText

\* new Error(prefix + message).message, and the template `LLM call failed: ${err.message}`
ErrorText(prefix, message) == Plain(<<prefix>> \o message)
LlmCallFailed(message) == Plain(<<"LLM call failed: ">> \o message)

\* callOllamaHttp's result for the body t of a 2xx response, then the script's choice of
\* the analysis text from it; a body that parses to null makes res.output throw.
HttpThrowsOnResult(t) == t.kind = "null"
HttpAnalysisText(t) ==
    CASE t.kind = "plain" -> IF t # EmptyText THEN t ELSE ObjText(TRUE, <<>>, <<EmptyText>>)
      [] t.kind = "string" -> t.inner[1]
      [] t.kind = "object" ->
            IF TruthyMember(t.output) THEN t.output[1]
            ELSE IF TruthyMember(t.text) THEN t.text[1]
            ELSE IF TruthyMember(t.raw) THEN t.raw[1]
            ELSE Pretty(t)
      [] OTHER -> Pretty(t)

\* the script's handling of callOllamaCli's output
CliAnalysisText(t) == IF Parses(t) THEN Pretty(t) ELSE t

\* the normalisation block of analyzeFailures
Normalize(t) ==
    IF ~Parses(t) THEN t
    ELSE IF t.kind = "object" /\ (TruthyMember(t.summary) \/ TruthyMember(t.probable_root_cause)
                                    \/ TruthyMember(t.allure_attachment))
         THEN Pretty(t)
    ELSE IF t.kind = "object" /\ TruthyMember(t.raw) THEN t.raw[1]
    ELSE Pretty(t)

----------------------------------------------------------------------------
(* buildPrompt *)

TraceLimit == 3000

Min(a, b) == IF a < b THEN a ELSE b
\* s.slice(0, n)
Slice(s, n) == SubSeq(s, 1, Min(n, Len(s)))
\* String(v) of a string value
StrOf(v) == v.s
\* `${v || dflt}`
OrDefault(v, dflt) == IF Truthy(v) THEN StrOf(v) ELSE <<dflt>>

\* lines.join('\n')
RECURSIVE Join(_)
Join(lines) ==
    IF lines = <<>> THEN <<>>
    ELSE IF Len(lines) = 1 THEN lines[1]
    ELSE lines[1] \o <<"\n">> \o Join(Tail(lines))

\* (mutation of StepHasError: the status of the step is not looked at)
StepHasError_AnyStatus(s) ==
    /\ Truthy(Get(s, "statusDetails"))
    /\ Truthy(Get(Get(s, "statusDetails"), "message"))

\* the step error is pushed for a failed step that has a truthy statusDetails.message
StepHasError(s) ==
    /\ Get(s, "status") = Str(<<"failed">>)
    /\ Truthy(Get(s, "statusDetails"))
    /\ Truthy(Get(Get(s, "statusDetails"), "message"))

\* the lines one step contributes; i is the forEach index (0-based)
StepLines(s, i) ==
    << <<ToString(i + 1), ". ">> \o OrDefault(Get(s, "name"), "<step>") \o <<" - ">>
         \o OrDefault(Get(s, "status"), "unknown") >>
    \o (IF StepHasError(s)
        THEN << <<"   Step error: ">> \o StrOf(Get(Get(s, "statusDetails"), "message")) >>
        ELSE <<>>)

RECURSIVE StepsLines(_, _)
StepsLines(steps, i) ==
    IF i >= Len(steps) THEN <<>>
    ELSE StepLines(steps[i + 1], i) \o StepsLines(steps, i + 1)

\* the trace as it is put into the prompt
TraceInPrompt(trace) == Slice(StrOf(trace), TraceLimit)

\* buildPrompt(test), json being test.json
buildPrompt(json) ==
    LET sd == Get(json, "statusDetails")
        steps == Get(json, "steps")
    IN Join(
        << <<"You are an expert Playwright + Cucumber engineer.">>,
           <<"Analyze the failing test and provide a concise JSON with keys: summary, probable_root_cause, confidence, suggested_fix, immediate_workaround, files_to_change (array), allure_attachment (markdown string).">>,
           <<"Do not include secrets. Keep suggested_fix short and actionable.">>,
           <<"---">>,
           <<"Test name: ">> \o OrDefault(Get(json, "name"), "Unknown") >>
        \o (IF Truthy(Get(json, "fullName"))
            THEN << <<"Full name: ">> \o StrOf(Get(json, "fullName")) >> ELSE <<>>)
        \o (IF Truthy(sd) /\ Truthy(Get(sd, "message"))
            THEN << <<"Error message:">>, StrOf(Get(sd, "message")) >> ELSE <<>>)
        \o (IF steps.t = "list" /\ Len(steps.l) > 0
            THEN << <<"Steps:">> >> \o StepsLines(steps.l, 0) ELSE <<>>)
        \o (IF Truthy(sd) /\ Truthy(Get(sd, "trace"))
            THEN << <<"Stack trace:">>, TraceInPrompt(Get(sd, "trace")) >> ELSE <<>>)
        \o << <<"---">>, <<"Provide the JSON only.">> >>)

----------------------------------------------------------------------------
(* The results directory *)

allureDir == <<"allure-results">>
\* path.join(dir, name) and path.basename(p); a file name holds no "/"
PathJoin(dir, name) == dir \o <<"/">> \o name
Basename(p) ==
    LET last == CHOOSE i \in DOMAIN p : p[i] = "/" /\ \A j \in DOMAIN p : p[j] = "/" => j <= i
    IN SubSeq(p, last + 1, Len(p))

\* the characters of [a-zA-Z0-9._-]; every other chunk of a name is one character
SafeChunks == {"r", "1", "_", "notes", ".json", ".txt", "-llm-analysis.txt", "fake-failed-1"}
\* s.replace(/[^a-zA-Z0-9._-]/g, '_')
Sanitize(s) == [i \in DOMAIN s |-> IF s[i] \in SafeChunks THEN s[i] ELSE "_"]
\* analysisFileName of the loop body for the record read from path file
AnalysisFileName(file) == Sanitize(Basename(file)) \o <<"-llm-analysis.txt">>

\* f.endsWith('.json')
EndsWithJson(name) == name # <<>> /\ name[Len(name)] = ".json"

\* the names a results directory is populated from, in the order readdirSync lists them
FileNames == << <<"r", "_", ".json">>, <<"r", "#", ".json">>, <<"notes", ".txt">>,
                <<"r", "1", ".json">> >>
Names == {FileNames[i] : i \in 1..Min(MaxFiles, Len(FileNames))}

Shot ==
    Obj(<<P("name", Str(<<"screenshot">>)), P("source", Str(<<"shot", ".png">>)),
          P("type", Str(<<"image/png">>))>>)
\* the attachment the script pushes
AnalysisAttachment(fileName) ==
    Obj(<<P("name", Str(<<"LLM failure analysis">>)), P("source", Str(fileName)),
          P("type", Str(<<"text/plain">>))>>)

\* the result fake-failure.js writes (times and labels left out, trace shortened)
DocFixture ==
    Obj(<<P("uuid", Str(<<"fake-failed-1">>)),
          P("name", Str(<<"Fake failing scenario - LLM test">>)),
          P("status", Str(<<"failed">>)),
          P("steps", List(<<Obj(<<P("name", Str(<<"Given I do something">>)),
                                  P("status", Str(<<"passed">>))>>),
                            Obj(<<P("name", Str(<<"When I trigger failure">>)),
                                  P("status", Str(<<"failed">>)),
                                  P("statusDetails",
                                    Obj(<<P("message", Str(<<"TypeError: foo is not a function">>))>>))>>)>>)),
          P("attachments", List(<<>>)),
          P("statusDetails", Obj(<<P("message", Str(<<"TypeError: foo is not a function">>)),
                                   P("trace", Str(<<"T", "\n", "a", "t">>))>>))>>)
\* a failed result that carries a screenshot
DocShot ==
    Obj(<<P("name", Str(<<"login">>)), P("status", Str(<<"failed">>)),
          P("attachments", List(<<Shot>>)), P("stage", Str(<<"finished">>))>>)
\* a broken result without an attachments member
DocBroken == Obj(<<P("status", Str(<<"broken">>)), P("zeta", Str(<<"z">>))>>)
\* a failed result whose unknown members include array-index keys
DocIndexKey ==
    Obj(<<P("zeta", Str(<<"z">>)), P("7", Str(<<"seven">>)), P("status", Str(<<"failed">>)),
          P("3", Str(<<"three">>)), P("attachments", List(<<Shot>>))>>)
DocPassed == Obj(<<P("status", Str(<<"passed">>)), P("attachments", List(<<Shot>>))>>)
DocSkipped == Obj(<<P("status", Str(<<"skipped">>)), P("attachments", List(<<>>))>>)
DocNoStatus == Obj(<<P("zeta", Str(<<"z">>))>>)

File(doc) == [state |-> "ok", doc |-> doc]
Garbled == [state |-> "garbled", doc |-> Obj(<<>>)]
\* what a file of the directory may hold before the first run
InitContents(name) ==
    CASE name = FileNames[1] -> {File(DocFixture), File(DocIndexKey), File(DocPassed), Garbled}
      [] name = FileNames[2] -> {File(DocBroken), File(DocSkipped), File(DocNoStatus)}
      [] name = FileNames[3] -> {File(DocShot)}
      [] OTHER -> {File(DocBroken), File(DocPassed)}

\* f with x mapped to v, x added to the domain when new
Put(f, x, v) == [y \in DOMAIN f \cup {x} |-> IF y = x THEN v ELSE f[y]]

----------------------------------------------------------------------------
(* findFailedResults *)

\* (mutation of IsFailedStatus: any status counts as a failure)
IsFailedStatus_AnyStatus(json) == Truthy(Get(json, "status"))

\* the status test of findFailedResults on the parsed json
IsFailedStatus(json) ==
    /\ Truthy(Get(json, "status"))
    /\ \/ Get(json, "status") = Str(<<"failed">>)
       \/ Get(json, "status") = Str(<<"broken">>)

\* the forEach body: the entry pushed for the file called name, if any
FailedEntry(dir, name) ==
    IF EndsWithJson(name) /\ dir[name].state = "ok" /\ IsFailedStatus(JSONparse(dir[name].doc))
    THEN << [file |-> PathJoin(allureDir, name), json |-> JSONparse(dir[name].doc)] >>
    ELSE <<>>

RECURSIVE ScanFrom(_, _)
ScanFrom(dir, i) ==
    IF i > Len(FileNames) THEN <<>>
    ELSE (IF FileNames[i] \in DOMAIN dir THEN FailedEntry(dir, FileNames[i]) ELSE <<>>)
         \o ScanFrom(dir, i + 1)

\* findFailedResults(allureDir) when readdirSync does not throw
findFailedResults(state, dir) == IF state = "missing" THEN <<>> ELSE ScanFrom(dir, 1)

----------------------------------------------------------------------------
(* analyzeFailures and the process around it *)

\* what the transports are drawn to answer
HttpBodies == {ObjText(FALSE, <<>>, <<Plain(<<"wrapped">>)>>)}
CliOutputs == {ObjText(FALSE, <<Plain(<<"flaky selector">>)>>, <<>>)}
\* err.message of what fetch / the status check throw, and of what spawnSync reports
HttpFailures == {<<"fetch failed">>, <<"Ollama HTTP error ", "500", " ", "Internal Server Error">>}
CliFailures == {<<"spawnSync ollama ENOENT">>, <<"ollama CLI failed">>}

NoText == EmptyText
Running == {"start", "prompt", "invoke", "write", "attach"}

curFile == failures[idx].file
curJson == failures[idx].json
curName == AnalysisFileName(curFile)

\* json.attachments || []
AttachmentsOf(json) ==
    IF Truthy(Get(json, "attachments")) THEN Get(json, "attachments").l ELSE <<>>
\* (mutation of AlreadyAttached: the duplicate check never finds the attachment)
AlreadyAttached_Never(json, fileName) == FALSE

\* json.attachments.find(a => a.source === analysisFileName) found one
AlreadyAttached(json, fileName) ==
    \E i \in DOMAIN AttachmentsOf(json) : Get(AttachmentsOf(json)[i], "source") = Str(fileName)
\* json after json.attachments = json.attachments || []; json.attachments.push({...})
WithAttachment(json, fileName) ==
    Set(json, "attachments", List(Append(AttachmentsOf(json), AnalysisAttachment(fileName))))

\* the variables of the other specifications stay as they are
OthersIdle == UNCHANGED <<normVars, promptVars>>

\* memory of a process that is not running
Cleared ==
    /\ failures' = <<>>
    /\ idx' = 0
    /\ analysisText' = NoText
    /\ prompt' = <<>>

\* the run's history starts afresh
Forgotten ==
    /\ outcomes' = <<>>
    /\ tfail' = {}
    /\ invoked' = 0
    /\ written' = <<>>

PipeInit ==
    /\ dirState \in {"ok", "missing", "unreadable"}
    /\ transport \in {"http", "cli"}
    /\ \E present \in SUBSET Names :
          /\ dirState # "ok" => present = {}
          /\ records \in {f \in [present -> UNION {InitContents(n) : n \in present}] :
                              \A n \in present : f[n] \in InitContents(n)}
    /\ analysisFiles = <<>>
    /\ pc = "start"
    /\ failures = <<>>
    /\ idx = 0
    /\ analysisText = NoText
    /\ prompt = <<>>
    /\ exitCode = -1
    /\ outcomes = <<>>
    /\ tfail = {}
    /\ invoked = 0
    /\ startRecords = records
    /\ written = <<>>

\* main up to the for loop: findFailedResults, the early return, a throw of readdirSync
Discover ==
    /\ pc = "start"
    /\ IF dirState = "unreadable"
       THEN /\ pc' = "exit" /\ exitCode' = 2
            /\ UNCHANGED <<failures, idx>>
       ELSE LET found == findFailedResults(dirState, records)
            IN /\ failures' = found
               /\ IF found = <<>>
                  THEN pc' = "exit" /\ exitCode' = 0 /\ idx' = 0
                  ELSE pc' = "prompt" /\ exitCode' = exitCode /\ idx' = 1
    /\ UNCHANGED <<dirState, records, analysisFiles, transport, analysisText, prompt,
                   outcomes, tfail, invoked, startRecords, written>>
    /\ OthersIdle

\* the head of the loop body: the names and the prompt
BuildPrompt ==
    /\ pc = "prompt"
    /\ prompt' = buildPrompt(curJson)
    /\ pc' = "invoke"
    /\ UNCHANGED <<dirState, records, analysisFiles, transport, failures, idx, analysisText,
                   exitCode, outcomes, tfail, invoked, startRecords, written>>
    /\ OthersIdle

\* what every transport step shares: the outcome t of the try block is normalised
Analysed(t) ==
    /\ analysisText' = Normalize(t)
    /\ invoked' = invoked + 1
    /\ pc' = "write"
    /\ UNCHANGED <<dirState, records, analysisFiles, transport, failures, idx, prompt,
                   exitCode, outcomes, startRecords, written>>

\* callOllamaHttp answers 2xx with some body
HttpOk ==
    /\ pc = "invoke" /\ transport = "http"
    /\ \E body \in HttpBodies :
          Analysed(IF HttpThrowsOnResult(body)
                   THEN LlmCallFailed(<<"Cannot read properties of null (reading 'output')">>)
                   ELSE HttpAnalysisText(body))
    /\ tfail' = tfail
    /\ OthersIdle

\* callOllamaHttp throws: no connection, or a status that is not ok
HttpFail ==
    /\ pc = "invoke" /\ transport = "http"
    /\ \E why \in HttpFailures :
          Analysed(LlmCallFailed(ErrorText("Ollama HTTP call failed: ", why).chunks))
    /\ tfail' = tfail \cup {idx}
    /\ OthersIdle

\* callOllamaCli returns the process' stdout
CliOk ==
    /\ pc = "invoke" /\ transport = "cli"
    /\ \E out \in CliOutputs : Analysed(CliAnalysisText(out))
    /\ tfail' = tfail
    /\ OthersIdle

\* callOllamaCli throws: the process cannot be launched, or exits non-zero
CliFail ==
    /\ pc = "invoke" /\ transport = "cli"
    /\ \E why \in CliFailures :
          Analysed(LlmCallFailed(ErrorText("Ollama CLI call failed: ", why).chunks))
    /\ tfail' = tfail \cup {idx}
    /\ OthersIdle

\* fs.writeFileSync(analysisPath, analysisText) succeeds
WriteAnalysis ==
    /\ pc = "write"
    /\ analysisFiles' = Put(analysisFiles, curName, analysisText)
    /\ written' = Append(written, PathJoin(allureDir, curName))
    /\ pc' = "attach"
    /\ UNCHANGED <<dirState, records, transport, failures, idx, analysisText, prompt, exitCode,
                   outcomes, tfail, invoked, startRecords>>
    /\ OthersIdle

\* (mutation of WriteAnalysisFail: the throw is swallowed and the loop body goes on)
WriteAnalysisFail_Swallowed ==
    /\ pc = "write"
    /\ pc' = "attach"
    /\ UNCHANGED <<dirState, records, analysisFiles, transport, failures, idx, analysisText,
                   prompt, exitCode, outcomes, tfail, invoked, startRecords, written>>
    /\ OthersIdle

\* fs.writeFileSync(analysisPath, ...) throws: nothing in analyzeFailures catches it, the
\* rejection reaches main's catch and the process exits with 2
WriteAnalysisFail ==
    /\ pc = "write"
    /\ pc' = "exit"
    /\ exitCode' = 2
    /\ UNCHANGED <<dirState, records, analysisFiles, transport, failures, idx, analysisText,
                   prompt, outcomes, tfail, invoked, startRecords, written>>
    /\ OthersIdle

\* the end of the loop body: the next record, or return 0 and process.exit(0)
Advance(how, json) ==
    /\ outcomes' = Append(outcomes, how)
    /\ failures' = [failures EXCEPT ![idx].json = json]
    /\ analysisText' = NoText
    /\ prompt' = <<>>
    /\ IF idx < Len(failures)
       THEN idx' = idx + 1 /\ pc' = "prompt" /\ exitCode' = exitCode
       ELSE idx' = idx /\ pc' = "exit" /\ exitCode' = 0
    /\ UNCHANGED <<dirState, analysisFiles, transport, tfail, invoked, startRecords>>

\* the attachment is already there: nothing is written
AttachPresent ==
    /\ pc = "attach"
    /\ AlreadyAttached(curJson, curName)
    /\ records' = records
    /\ written' = written
    /\ Advance("present", Set(curJson, "attachments", List(AttachmentsOf(curJson))))
    /\ OthersIdle

\* the attachment is pushed and the record file rewritten
AttachAdd ==
    /\ pc = "attach"
    /\ ~AlreadyAttached(curJson, curName)
    /\ records' = Put(records, Basename(curFile),
                      File(JSONstringify(WithAttachment(curJson, curName))))
    /\ written' = Append(written, curFile)
    /\ Advance("added", WithAttachment(curJson, curName))
    /\ OthersIdle

\* the attachment is pushed, the rewrite throws and the catch logs it
AttachFail ==
    /\ pc = "attach"
    /\ ~AlreadyAttached(curJson, curName)
    /\ records' = records
    /\ written' = written
    /\ Advance("failed", WithAttachment(curJson, curName))
    /\ OthersIdle

\* the process dies between two steps
Crash ==
    /\ pc \in Running
    /\ pc' = "crashed"
    /\ Cleared
    /\ Forgotten
    /\ startRecords' = records
    /\ UNCHANGED <<dirState, records, analysisFiles, transport, exitCode>>
    /\ OthersIdle

\* the process dies inside writeFileSync(analysisPath, ...): the file was opened with
\* truncation and not all of the text was written
CrashInAnalysisWrite ==
    /\ pc = "write"
    /\ analysisFiles' = Put(analysisFiles, curName, EmptyText)
    /\ pc' = "crashed"
    /\ Cleared
    /\ Forgotten
    /\ startRecords' = records
    /\ UNCHANGED <<dirState, records, transport, exitCode>>
    /\ OthersIdle

\* the process dies inside writeFileSync(f.file, ...): the record file was opened with
\* truncation and holds a proper prefix of the new text
CrashInRewrite ==
    /\ pc = "attach"
    /\ ~AlreadyAttached(curJson, curName)
    /\ \E n \in {0, Len(WithAttachment(curJson, curName).o) - 1} :
          records' = Put(records, Basename(curFile),
                         [state |-> "truncated",
                          doc |-> Obj(SubSeq(WithAttachment(curJson, curName).o, 1, n))])
    /\ pc' = "crashed"
    /\ Cleared
    /\ Forgotten
    /\ startRecords' = records'
    /\ UNCHANGED <<dirState, analysisFiles, transport, exitCode>>
    /\ OthersIdle

\* the script is started again over the same directory
Rerun ==
    /\ pc \in {"exit", "crashed"}
    /\ pc' = "start"
    /\ Cleared
    /\ Forgotten
    /\ exitCode' = -1
    /\ startRecords' = records
    /\ UNCHANGED <<dirState, records, analysisFiles, transport>>
    /\ OthersIdle

\* the variables of the other specifications, while one of them runs
NormIdle == nx = EmptyText /\ n1 = EmptyText /\ n2 = EmptyText /\ npc = 0
PromptIdle == ptest = Obj(<<>>) /\ ppc = 0
PipeIdle ==
    /\ dirState = "ok" /\ records = <<>> /\ analysisFiles = <<>> /\ transport = "cli"
    /\ pc = "idle" /\ failures = <<>> /\ idx = 0 /\ analysisText = NoText /\ exitCode = -1
    /\ outcomes = <<>> /\ tfail = {} /\ invoked = 0 /\ startRecords = <<>> /\ written = <<>>

Init == PipeInit /\ NormIdle /\ PromptIdle

Next ==
    \/ Discover
    \/ BuildPrompt
    \/ HttpOk
    \/ HttpFail
    \/ CliOk
    \/ CliFail
    \/ WriteAnalysis
    \/ WriteAnalysisFail
    \/ AttachPresent
    \/ AttachAdd
    \/ AttachFail
    \/ Crash
    \/ CrashInAnalysisWrite
    \/ CrashInRewrite
    \/ Rerun

Spec == Init /\ [][Next]_vars

----------------------------------------------------------------------------
(* The normalisation block applied to a text, and to its own result *)

RECURSIVE Texts(_)
Texts(d) ==
    LET flat == {Plain(<<"free text">>), EmptyText, NumText(TRUE), NumText(FALSE), NullText(TRUE),
                 StrLitText(TRUE, Plain(<<"free text">>)), StrLitText(FALSE, Plain(<<"free text">>))}
    IN IF d = 0 THEN flat
       ELSE flat \cup {ObjText(c, sm, rw) :
                         c \in BOOLEAN, sm \in {<<>>, <<Plain(<<"flaky selector">>)>>},
                         rw \in {<<>>} \cup {<<t>> : t \in Texts(d - 1)}}

NormInit ==
    /\ nx \in Texts(MaxDepth)
    /\ n1 = EmptyText /\ n2 = EmptyText /\ npc = 0
    /\ PipeIdle /\ PromptIdle /\ prompt = <<>>

NormalizeOnce ==
    /\ npc = 0
    /\ n1' = Normalize(nx)
    /\ npc' = 1
    /\ UNCHANGED <<nx, n2, pipeVars, promptVars, prompt>>

NormalizeAgain ==
    /\ npc = 1
    /\ n2' = Normalize(n1)
    /\ npc' = 2
    /\ UNCHANGED <<nx, n1, pipeVars, promptVars, prompt>>

NormNext == NormalizeOnce \/ NormalizeAgain

SpecNorm == NormInit /\ [][NormNext]_vars

----------------------------------------------------------------------------
(* buildPrompt applied to a result *)

\* a trace of n characters
TraceOf(n) == [i \in 1..n |-> IF i % 1000 = 0 THEN "\n" ELSE IF i % 2 = 0 THEN "a" ELSE "b"]
ShortTraces == {Str(<<"T", "\n", "a", "t">>)}
LongTraces == {Str(TraceOf(n)) : n \in {TraceLimit - 1, TraceLimit, TraceLimit + 1, 5000}}

\* optional member k of an object text
Opt(k, vs) == {<<>>} \cup {<<P(k, v)>> : v \in vs}

\* a step as an Allure result lists it; <<>> leaves the member out
StepInput(name, status, details) ==
    Obj((IF name = <<>> THEN <<>> ELSE <<P("name", Str(name))>>)
        \o (IF status = <<>> THEN <<>> ELSE <<P("status", Str(status))>>)
        \o details)
NoDetails == <<>>
Details(members) == <<P("statusDetails", Obj(members))>>
Message(m) == <<P("message", Str(m))>>

StepInputs ==
    {StepInput(<<"Given I do something">>, <<"passed">>, NoDetails),
     StepInput(<<"When I trigger failure">>, <<"failed">>, Details(Message(<<"TypeError: foo is not a function">>))),
     StepInput(<<"When I trigger failure">>, <<"failed">>, NoDetails),
     StepInput(<<"When I trigger failure">>, <<"failed">>, Details(<<>>)),
     StepInput(<<"When I trigger failure">>, <<"failed">>, Details(Message(<<>>))),
     StepInput(<<"Then it breaks">>, <<"broken">>, Details(Message(<<"Timeout">>))),
     StepInput(<<"Then it ends">>, <<>>, Details(Message(<<"Timeout">>))),
     StepInput(<<>>, <<"passed">>, Details(Message(<<"ignored">>)))}

RECURSIVE SeqsUpTo(_, _)
SeqsUpTo(S, n) ==
    IF n = 0 THEN {<<>>}
    ELSE SeqsUpTo(S, n - 1) \cup {Append(q, x) : q \in {r \in SeqsUpTo(S, n - 1) : Len(r) = n - 1}, x \in S}

\* the two steps of the fixture
FixtureSteps == Get(DocFixture, "steps").l

ResultWith(nm, steps, sd) ==
    Obj(nm \o <<P("status", Str(<<"failed">>))>> \o steps \o sd)

PromptInputs ==
    {ResultWith(nm, st, sd) :
        nm \in Opt("name", {Str(<<"Fake failing scenario">>)}),
        st \in Opt("steps", {List(q) : q \in SeqsUpTo(StepInputs, MaxSteps)}),
        sd \in Opt("statusDetails",
                   {Obj(m \o t) : m \in Opt("message", {Str(<<"TypeError: foo is not a function">>)}),
                                  t \in {<<P("trace", x)>> : x \in ShortTraces}})}
    \cup
    {ResultWith(<<P("name", Str(<<"Fake failing scenario">>))>>, st, sd) :
        st \in Opt("steps", {List(<<>>), List(FixtureSteps)}),
        sd \in {<<P("statusDetails", Obj(m \o <<P("trace", t)>>))>> :
                   m \in Opt("message", {Str(<<"TypeError: foo is not a function">>)}),
                   t \in LongTraces}}

PromptInit ==
    /\ ptest \in PromptInputs
    /\ prompt = <<>>
    /\ ppc = 0
    /\ PipeIdle /\ NormIdle

BuildOnly ==
    /\ ppc = 0
    /\ prompt' = buildPrompt(JSONparse(ptest))
    /\ ppc' = 1
    /\ UNCHANGED <<ptest, pipeVars, normVars>>

PromptNext == BuildOnly

SpecPrompt == PromptInit /\ [][PromptNext]_vars

----------------------------------------------------------------------------
(* Reading the files and the prompt as an observer does *)

\* the value of member k in the text doc as a JSON reader takes it: its last occurrence
Member(doc, k) == IF HasKey(doc.o, k) THEN doc.o[LastIdx(doc.o, k)].v ELSE Undefined
\* the attachments listed in the text doc
ListedAttachments(doc) == IF Member(doc, "attachments").t = "list" THEN Member(doc, "attachments").l ELSE <<>>
\* how many of them refer to the file called fileName
AnalysisCount(doc, fileName) ==
    Cardinality({i \in DOMAIN ListedAttachments(doc) :
                    Member(ListedAttachments(doc)[i], "source") = Str(fileName)})
\* the analysis file name of the record stored under name
AnalysisNameOf(name) == Sanitize(name) \o <<"-llm-analysis.txt">>
\* the file called name holds a record whose status is failed or broken
IsFailedRecord(dir, name) ==
    /\ name[Len(name)] = ".json"
    /\ dir[name].state = "ok"
    /\ Member(dir[name].doc, "status").s \in {<<"failed">>, <<"broken">>}
\* the text doc with the analysis attachment appended to its attachment list and nothing
\* else changed
Appended(doc, fileName) ==
    IF HasKey(doc.o, "attachments")
    THEN Obj([i \in DOMAIN doc.o |->
                IF i = LastIdx(doc.o, "attachments")
                THEN P("attachments", List(Append(ListedAttachments(doc), AnalysisAttachment(fileName))))
                ELSE doc.o[i]])
    ELSE Obj(Append(doc.o, P("attachments", List(<<AnalysisAttachment(fileName)>>))))
\* the name under which record i of this run is stored
NameOfFailure(i) == Basename(failures[i].file)

\* the prompt's line breaks, lines and their number
Breaks(p) == {i \in DOMAIN p : p[i] = "\n"}
NumLines(p) == Cardinality(Breaks(p)) + 1
BreakNo(p, k) ==
    IF k = 0 THEN 0
    ELSE IF k > Cardinality(Breaks(p)) THEN Len(p) + 1
    ELSE CHOOSE i \in Breaks(p) : Cardinality({j \in Breaks(p) : j < i}) = k - 1
LineNo(p, k) == SubSeq(p, BreakNo(p, k - 1) + 1, BreakNo(p, k) - 1)
\* the steps and the trace of the result a prompt is built from
StepsOf(doc) == IF Member(doc, "steps").t = "list" THEN Member(doc, "steps").l ELSE <<>>
TraceOfResult(doc) == Member(Member(doc, "statusDetails"), "trace").s
\* step s is failed and carries a (non-empty) failure message
FailedWithMessage(s) ==
    /\ Member(s, "status").s = <<"failed">>
    /\ Member(Member(s, "statusDetails"), "message").s # <<>>
\* the line the prompt has for step number i
StepLineNo(p, i) ==
    CHOOSE k \in 1..NumLines(p) : Len(LineNo(p, k)) >= 2 /\ SubSeq(LineNo(p, k), 1, 2) = <<ToString(i), ". ">>
HasStepLine(p, i) ==
    Cardinality({k \in 1..NumLines(p) :
                    Len(LineNo(p, k)) >= 2 /\ SubSeq(LineNo(p, k), 1, 2) = <<ToString(i), ". ">>}) = 1

----------------------------------------------------------------------------
(* Claims *)

\* C1 (as stated): after a record has been processed, its record file lists exactly one
\* attachment whose source is the record's analysis file name.
C1_ExactlyOneAfterProcessing ==
    \A i \in DOMAIN outcomes :
        AnalysisCount(records[NameOfFailure(i)].doc, AnalysisNameOf(NameOfFailure(i))) = 1

\* C1 (amended): a record file never lists more than one attachment whose source is the
\* record's analysis file name, however often the record is processed, and it lists exactly
\* one after a pass that found the attachment present or rewrote the file successfully.
C1_AtMostOneAndOneWhenWritten ==
    /\ \A name \in DOMAIN records : AnalysisCount(records[name].doc, AnalysisNameOf(name)) <= 1
    /\ \A i \in DOMAIN outcomes :
          outcomes[i] \in {"added", "present"} =>
              AnalysisCount(records[NameOfFailure(i)].doc, AnalysisNameOf(NameOfFailure(i))) = 1

\* C1 witness: a later run found the attachment of an earlier run and added no second one.
C1_Witness ==
    \E i \in DOMAIN outcomes :
        /\ outcomes[i] = "present"
        /\ AnalysisCount(records[NameOfFailure(i)].doc, AnalysisNameOf(NameOfFailure(i))) = 1

\* C2: processing a record leaves its record file as it was, except that a pass which adds
\* the analysis attachment appends it to the attachment list: every other member keeps its
\* value and its place.
C2_OnlyTheAttachmentIsAppended ==
    \A i \in DOMAIN outcomes :
        records[NameOfFailure(i)].doc =
            IF outcomes[i] = "added"
            THEN Appended(startRecords[NameOfFailure(i)].doc, AnalysisNameOf(NameOfFailure(i)))
            ELSE startRecords[NameOfFailure(i)].doc

\* C3: a failure while processing a record does not abort the batch: a run that found
\* failed records ends with exit code 0 after the loop body completed for each of them,
\* and exit code 2 is seen only when no record was begun.
C3_BatchNeverAborts ==
    pc = "exit" =>
        /\ exitCode \in {0, 2}
        /\ exitCode = 2 => idx = 0 /\ invoked = 0
        /\ exitCode = 0 => Len(outcomes) = Len(failures)

\* C4: when the transport call for a record fails, the analysis file of the record begins
\* with "LLM call failed: ", the record file lists exactly one analysis attachment and the
\* run exits with 0.
C4_TransportFailureStillAttaches ==
    (pc = "exit" /\ tfail # {}) =>
        /\ exitCode = 0
        /\ \A i \in tfail :
              /\ AnalysisNameOf(NameOfFailure(i)) \in DOMAIN analysisFiles
              /\ analysisFiles[AnalysisNameOf(NameOfFailure(i))].kind = "plain"
              /\ SubSeq(analysisFiles[AnalysisNameOf(NameOfFailure(i))].chunks, 1, 1) = <<"LLM call failed: ">>
              /\ AnalysisCount(records[NameOfFailure(i)].doc, AnalysisNameOf(NameOfFailure(i))) = 1

\* C5: every failed or broken record gets an analysis file of its own: no two records of
\* a run share an analysis file name, when the run has ended each has its file, and the
\* file of a record that has an identifier is named after the sanitized identifier.
C5_OneAnalysisFilePerRecord ==
    /\ \A i, j \in DOMAIN failures :
          i # j => AnalysisNameOf(NameOfFailure(i)) # AnalysisNameOf(NameOfFailure(j))
    /\ pc = "exit" =>
          \A i \in DOMAIN failures :
              /\ AnalysisNameOf(NameOfFailure(i)) \in DOMAIN analysisFiles
              /\ Member(startRecords[NameOfFailure(i)].doc, "uuid").s # <<>> =>
                     AnalysisNameOf(Member(startRecords[NameOfFailure(i)].doc, "uuid").s)
                         \in DOMAIN analysisFiles

\* C6: normalising a normalised text changes nothing.
C6_NormalizeIdempotent == npc = 2 => n2 = n1

\* C7: over a directory that can be listed (or does not exist) and holds no failed or
\* broken record, the run exits with 0, calls no transport and writes no file.
C7_NothingToAnalyse ==
    (/\ pc = "exit"
     /\ dirState # "unreadable"
     /\ \A name \in DOMAIN startRecords : ~IsFailedRecord(startRecords, name))
    => /\ exitCode = 0
       /\ invoked = 0
       /\ written = <<>>
       /\ records = startRecords
       /\ failures = <<>>

\* C7 witness: such a run over a directory that holds files has ended.
C7_Witness ==
    /\ pc = "exit"
    /\ dirState = "ok"
    /\ \E name \in DOMAIN startRecords : startRecords[name].state = "ok" /\ name[Len(name)] = ".json"
    /\ \E name \in DOMAIN startRecords : startRecords[name].state = "garbled"
    /\ \A name \in DOMAIN startRecords : ~IsFailedRecord(startRecords, name)

\* C8: the prompt has one line "<i>. <name> - <status>" per step, in the order of the
\* steps; the line after it is "   Step error: <message>" exactly when the step is failed
\* and carries a message; a trace longer than TraceLimit is in the prompt as exactly its
\* first TraceLimit characters.
C8_StepLinesAndTrace ==
    ppc = 1 =>
        LET steps == StepsOf(ptest)
            trace == TraceOfResult(ptest)
            n == Len(prompt)
        IN /\ \A i \in DOMAIN steps :
                 /\ HasStepLine(prompt, i)
                 /\ (Truthy(Member(steps[i], "name")) /\ Truthy(Member(steps[i], "status"))) =>
                        LineNo(prompt, StepLineNo(prompt, i)) =
                            <<ToString(i), ". ">> \o Member(steps[i], "name").s \o <<" - ">>
                                \o Member(steps[i], "status").s
                 /\ i > 1 => StepLineNo(prompt, i - 1) < StepLineNo(prompt, i)
                 /\ IF FailedWithMessage(steps[i])
                    THEN LineNo(prompt, StepLineNo(prompt, i) + 1) =
                            <<"   Step error: ">> \o Member(Member(steps[i], "statusDetails"), "message").s
                    ELSE SubSeq(LineNo(prompt, StepLineNo(prompt, i) + 1), 1, 1) # <<"   Step error: ">>
           /\ Len(trace) > TraceLimit =>
                 /\ SubSeq(prompt, n - 3 - TraceLimit, n - 4) = SubSeq(trace, 1, TraceLimit)
                 /\ SubSeq(prompt, n - 5 - TraceLimit, n - 4 - TraceLimit) = <<"Stack trace:", "\n">>
                 /\ SubSeq(prompt, n - 3, n) = <<"\n", "---", "\n", "Provide the JSON only.">>

\* C8 witness: a prompt was built from the fixture's steps and a trace of 5000 characters.
C8_Witness ==
    /\ ppc = 1
    /\ Len(TraceOfResult(ptest)) = 5000
    /\ \E i \in DOMAIN StepsOf(ptest) : FailedWithMessage(StepsOf(ptest)[i])

\* C9: a record file on disk is never a partly written one, whatever happened to the
\* process that rewrote it.
C9_RewriteIsCrashSafe ==
    \A name \in DOMAIN records : records[name].state # "truncated"

\* C10: a record file that lists the analysis attachment implies that the analysis file
\* exists (the directory started without analysis attachments).
C10_AttachmentImpliesFile ==
    \A name \in DOMAIN records :
        AnalysisCount(records[name].doc, AnalysisNameOf(name)) > 0 =>
            AnalysisNameOf(name) \in DOMAIN analysisFiles

\* C10 witness: the process crashed while a record file lists the analysis attachment.
C10_Witness ==
    /\ pc = "crashed"
    /\ \E name \in DOMAIN records :
          AnalysisCount(records[name].doc, AnalysisNameOf(name)) > 0

====
